---- MODULE Spec2Model ----
(***************************************************************************)
(* openclaw-kcc-notify: the Telegram mode watchdog (a cron-run bash        *)
(* script) and the KCC Office notifier plugin (index.ts).                  *)
(*                                                                         *)
(* The watchdog's world is one record, wd: the files it reads and writes,  *)
(* the clock, and the position and local variables of the running          *)
(* invocation.  Each step of the script is an operator from worlds to      *)
(* worlds; the actions apply these operators, and run() iterates them.     *)
(***************************************************************************)
EXTENDS Integers, Sequences, FiniteSets, TLC

VARIABLES
  wd,        \* the watchdog's world (see below)
  hooks,     \* the hooks the plugin has registered with the host
  running,   \* the hook handler the host is running: its event and its calls
  inflight,  \* the postJson calls whose fetch has not settled
  issued,    \* how many postJson calls were made
  returned,  \* the postJson call that has just returned, and its value
  http,      \* the /kcc-notify request being served and its response
  filter     \* the filter function last applied on its own, and its result

wdvars == <<wd>>
ntvars == <<hooks, running, inflight, issued, returned, http>>
flvars == <<filter>>
vars == <<wd, hooks, running, inflight, issued, returned, http, filter>>

(***************************************************************************)
(* Bounds of the model.                                                    *)
(***************************************************************************)
MaxInvocations == 4
MaxFragments == 2
MaxPosts == 3

(***************************************************************************)
(* Watchdog: constants of the script.                                      *)
(***************************************************************************)
FAILURE_THRESHOLD == 2

\* curl --max-time of each call, in seconds; NoLimit: the option is not given.
NoLimit == 0
NginxMaxTime == 5
CfTunnelMaxTime == 10
KccOfficeMaxTime == 5
OpenclawMaxTime == 5
RestartMaxTime == NoLimit

\* What the far end of a call does: answers 2xx, fails (refuses, non-2xx), or
\* accepts the connection and never answers.
Remote == {"up", "down", "hung"}

\* One curl -sf call: "ok" (exit 0), "fail" (non-zero exit, also on --max-time
\* running out), "hang" (curl never returns).
curl(remote, maxTime) ==
  IF remote = "up" THEN "ok"
  ELSE IF remote = "down" THEN "fail"
  ELSE IF maxTime = NoLimit THEN "hang" ELSE "fail"

check_nginx(remote) == curl(remote, NginxMaxTime)
check_cf_tunnel(remote) == curl(remote, CfTunnelMaxTime)
check_kcc_office(remote) == curl(remote, KccOfficeMaxTime)
check_openclaw(remote) == curl(remote, OpenclawMaxTime)

Probes == [nginx : Remote, cf : Remote, openclaw : Remote, kcc : Remote]

\* The webhook fields of the channel configuration, populated and nulled.
WebhookSettings ==
  [webhookUrl |-> "https://office.itskcc.com/api/telegram/webhook",
   webhookSecret |-> "834e9a76",
   webhookPath |-> "/api/telegram/webhook"]
NullSettings ==
  [webhookUrl |-> "null", webhookSecret |-> "null", webhookPath |-> "null"]

\* A file is [exists, data]; data is the sequence of complete records in it:
\* <<>> is an empty file, <<r>> a file holding r.
NoFile == [exists |-> FALSE, data |-> <<>>]
EmptyFile == [exists |-> TRUE, data |-> <<>>]
FileOf(r) == [exists |-> TRUE, data |-> <<r>>]

InitialState ==
  [mode |-> "webhook", failureCount |-> 0, lastCheck |-> 0, lastSwitch |-> 0]

\* "$state": the text of a record, "" for the text of an empty file.
NoText == <<>>
TextOf(r) == <<r>>

\* jq -r '.mode' and '.failureCount' of a text; jq prints nothing for no input.
\* A shell variable holding a number is <<n>>, the empty string is <<>>.
jq_mode(text) == IF text = NoText THEN "" ELSE text[1].mode
jq_failureCount(text) == IF text = NoText THEN <<>> ELSE <<text[1].failureCount>>

\* Bash arithmetic on a variable: the empty string counts as 0.
Arith(v) == IF v = <<>> THEN 0 ELSE v[1]

\* jq '<field> = <value>' on a text: nothing for no input.
jq_set_failureCount(text, n) ==
  IF text = NoText THEN NoText ELSE TextOf([text[1] EXCEPT !.failureCount = n])
jq_switch(text, mode, now) ==
  IF text = NoText THEN NoText
  ELSE TextOf([text[1] EXCEPT !.mode = mode, !.lastSwitch = now,
                               !.failureCount = 0])

\* The locals of an invocation before main() sets them.
NoLocals ==
  [state |-> NoText, current_mode |-> "", failure_count |-> <<>>,
   nginx_ok |-> FALSE, cf_ok |-> FALSE, openclaw_ok |-> FALSE, kcc_ok |-> FALSE]

NoEnv == [rewrite |-> "", restart |-> ""]
NoStart == <<>>

\* The world between invocations.
Idle(stateFile, config, now, logTail) ==
  [stateFile |-> stateFile, openclawConfig |-> config, now |-> now,
   logTail |-> logTail, pc |-> "idle", locals |-> NoLocals,
   pending |-> NoText, ret |-> "", effects |-> <<>>, env |-> NoEnv,
   start |-> NoStart, exit |-> "none"]

(***************************************************************************)
(* Watchdog: the steps of one invocation, in the order the script runs     *)
(* them.  wd.pc is the position of the running invocation.                 *)
(***************************************************************************)

\* cron starts the script.  start keeps what the invocation found on disk.
cron(w) ==
  [w EXCEPT !.now = @ + 1, !.pc = "init_state", !.exit = "running",
            !.start = <<[stateFile |-> w.stateFile,
                         openclawConfig |-> w.openclawConfig]>>]

\* echo "$text" > "$STATE_FILE": the shell opens the file truncating it (or
\* creates it empty), and echo then writes the text: two steps.
redirect(w, text, ret) ==
  [w EXCEPT !.stateFile = EmptyFile, !.pending = text, !.pc = "write", !.ret = ret]
write(w) ==
  [w EXCEPT !.stateFile = [exists |-> TRUE, data |-> w.pending],
            !.pending = NoText, !.pc = w.ret, !.ret = ""]

init_state(w) ==
  IF ~w.stateFile.exists
  THEN redirect(w, TextOf(InitialState), "read_state")
  ELSE [w EXCEPT !.pc = "read_state"]

read_state(w) == w.stateFile.data

update_state(w, text, ret) == redirect(w, text, ret)

\* main, lines 116-118.
main_read(w) ==
  LET state == read_state(w) IN
  [w EXCEPT !.locals.state = state,
            !.locals.current_mode = jq_mode(state),
            !.locals.failure_count = jq_failureCount(state),
            !.pc = "checks"]

\* The Health line main logs; logTail is the last FAILURE_THRESHOLD of them.
HealthLine(l) ==
  [nginx |-> l.nginx_ok, cf |-> l.cf_ok, openclaw |-> l.openclaw_ok,
   kcc |-> l.kcc_ok, mode |-> l.current_mode, failures |-> l.failure_count]
LastLines(log, n) == IF Len(log) <= n THEN log ELSE SubSeq(log, Len(log) - n + 1, Len(log))
log_health(w) ==
  [w EXCEPT !.logTail = LastLines(Append(@, HealthLine(w.locals)), FAILURE_THRESHOLD)]

\* main, lines 121-131: the four probes, then the Health line.
ProbesReturn(probes) ==
  /\ check_nginx(probes.nginx) # "hang"
  /\ check_cf_tunnel(probes.cf) # "hang"
  /\ check_openclaw(probes.openclaw) # "hang"
  /\ check_kcc_office(probes.kcc) # "hang"
main_checks(w, probes) ==
  log_health(
    [w EXCEPT !.locals.nginx_ok = (check_nginx(probes.nginx) = "ok"),
              !.locals.cf_ok = (check_cf_tunnel(probes.cf) = "ok"),
              !.locals.openclaw_ok = (check_openclaw(probes.openclaw) = "ok"),
              !.locals.kcc_ok = (check_kcc_office(probes.kcc) = "ok"),
              !.pc = "decide"])

\* main, lines 133-177, up to the first update_state or the end.
count_up(w) ==
  LET n == Arith(w.locals.failure_count) + 1
      state == jq_set_failureCount(w.locals.state, n) IN
  update_state([w EXCEPT !.locals.failure_count = <<n>>, !.locals.state = state],
               state, "threshold")
\* A variant that leaves a stale count in place.
reset_count_kept(w) == [w EXCEPT !.pc = "done"]
reset_count(w) ==
  IF Arith(w.locals.failure_count) > 0
  THEN LET state == jq_set_failureCount(w.locals.state, 0) IN
       update_state([w EXCEPT !.locals.state = state], state, "done")
  ELSE [w EXCEPT !.pc = "done"]
\* A variant that does not require the gateway for recovery.
main_decide_without_gateway(w) ==
  LET l == w.locals IN
  IF l.current_mode = "webhook"
  THEN IF ~l.nginx_ok \/ ~l.cf_ok THEN count_up(w) ELSE reset_count(w)
  ELSE IF l.nginx_ok /\ l.cf_ok THEN count_up(w) ELSE reset_count(w)
\* A variant that also requires the auxiliary service for recovery.
main_decide_with_kcc(w) ==
  LET l == w.locals IN
  IF l.current_mode = "webhook"
  THEN IF ~l.nginx_ok \/ ~l.cf_ok THEN count_up(w) ELSE reset_count(w)
  ELSE IF l.nginx_ok /\ l.cf_ok /\ l.openclaw_ok /\ l.kcc_ok
       THEN count_up(w) ELSE reset_count(w)
main_decide(w) ==
  LET l == w.locals IN
  IF l.current_mode = "webhook"
  THEN IF ~l.nginx_ok \/ ~l.cf_ok THEN count_up(w) ELSE reset_count(w)
  ELSE IF l.nginx_ok /\ l.cf_ok /\ l.openclaw_ok THEN count_up(w) ELSE reset_count(w)

\* main, lines 141-146 and 164-169.
main_threshold(w) ==
  IF Arith(w.locals.failure_count) >= FAILURE_THRESHOLD
  THEN [w EXCEPT !.pc = "switch"]
  ELSE [w EXCEPT !.pc = "done"]

\* main calls switch_to_polling from webhook mode, switch_to_webhook otherwise.
SwitchTarget(w) == IF w.locals.current_mode = "webhook" THEN "polling" ELSE "webhook"
SettingsFor(target) == IF target = "polling" THEN NullSettings ELSE WebhookSettings

\* jq ... "$OPENCLAW_CONFIG" > "$OPENCLAW_CONFIG.tmp" && mv ... under set -e:
\* jq failing skips mv and the script goes on; mv failing ends the script.
RewriteOutcome == {"ok", "jq_fail", "mv_fail"}
switch_rewrite_config(w, outcome) ==
  LET done == [w EXCEPT !.effects = Append(@, [op |-> "config", target |-> SwitchTarget(w),
                                                 result |-> outcome]),
                        !.env.rewrite = outcome] IN
  IF outcome = "ok"
  THEN [done EXCEPT !.openclawConfig = SettingsFor(SwitchTarget(w)), !.pc = "restart"]
  ELSE IF outcome = "jq_fail"
  THEN [done EXCEPT !.pc = "restart"]
  ELSE [done EXCEPT !.pc = "exited", !.exit = "aborted"]

\* curl -sf -X POST .../api/gateway/restart ... || true
switch_restart_call(w, remote) ==
  [w EXCEPT !.effects = Append(@, [op |-> "restart", target |-> SwitchTarget(w),
                                    result |-> curl(remote, RestartMaxTime)]),
            !.env.restart = remote, !.pc = "restart_wait"]
RestartReturns(w) == curl(w.env.restart, RestartMaxTime) # "hang"
switch_restart_return(w) == [w EXCEPT !.pc = "switch_state"]

\* local state=$(read_state); state=$(... | jq ...); update_state "$state"
switch_update_state(w) ==
  LET state == jq_switch(read_state(w), SwitchTarget(w), w.now) IN
  update_state([w EXCEPT !.locals.state = state], state, "done")

\* main returns and the script exits 0.
main_return(w) == [w EXCEPT !.pc = "exited", !.exit = "ok"]

\* The process is gone: only the files and the clock remain.
reap(w) == Idle(w.stateFile, w.openclawConfig, w.now, w.logTail)

(***************************************************************************)
(* Watchdog: the state machine.                                            *)
(***************************************************************************)
Configs == {WebhookSettings, NullSettings}

WdInit == wd \in {Idle(NoFile, c, 0, <<>>) : c \in Configs}

Cron == wd.pc = "idle" /\ wd.now < MaxInvocations /\ wd' = cron(wd) /\ UNCHANGED <<ntvars, flvars>>
InitState == wd.pc = "init_state" /\ wd' = init_state(wd) /\ UNCHANGED <<ntvars, flvars>>
Write == wd.pc = "write" /\ wd' = write(wd) /\ UNCHANGED <<ntvars, flvars>>
ReadState == wd.pc = "read_state" /\ wd' = main_read(wd) /\ UNCHANGED <<ntvars, flvars>>
Checks ==
  /\ wd.pc = "checks"
  /\ \E probes \in Probes : ProbesReturn(probes) /\ wd' = main_checks(wd, probes)
  /\ UNCHANGED <<ntvars, flvars>>
Decide == wd.pc = "decide" /\ wd' = main_decide(wd) /\ UNCHANGED <<ntvars, flvars>>
Threshold == wd.pc = "threshold" /\ wd' = main_threshold(wd) /\ UNCHANGED <<ntvars, flvars>>
RewriteConfig ==
  /\ wd.pc = "switch"
  /\ \E outcome \in RewriteOutcome : wd' = switch_rewrite_config(wd, outcome)
  /\ UNCHANGED <<ntvars, flvars>>
RestartCall ==
  /\ wd.pc = "restart"
  /\ \E remote \in Remote : wd' = switch_restart_call(wd, remote)
  /\ UNCHANGED <<ntvars, flvars>>
RestartReturn ==
  /\ wd.pc = "restart_wait" /\ RestartReturns(wd)
  /\ wd' = switch_restart_return(wd)
  /\ UNCHANGED <<ntvars, flvars>>
SwitchState == wd.pc = "switch_state" /\ wd' = switch_update_state(wd) /\ UNCHANGED <<ntvars, flvars>>
Return == wd.pc = "done" /\ wd' = main_return(wd) /\ UNCHANGED <<ntvars, flvars>>
Reap == wd.pc = "exited" /\ wd' = reap(wd) /\ UNCHANGED <<ntvars, flvars>>

WdStep ==
  \/ InitState \/ Write \/ ReadState \/ Checks \/ Decide \/ Threshold
  \/ RewriteConfig \/ RestartCall \/ RestartReturn \/ SwitchState \/ Return

WdNext == Cron \/ WdStep \/ Reap

(***************************************************************************)
(* One invocation run to its end under given answers of the environment:   *)
(* env = [probes, rewrite, restart].  run stops when the script has exited *)
(* or waits for a call that never returns.                                 *)
(***************************************************************************)
step(w, env) ==
  CASE w.pc = "init_state" -> init_state(w)
    [] w.pc = "write" -> write(w)
    [] w.pc = "read_state" -> main_read(w)
    [] w.pc = "checks" -> main_checks(w, env.probes)
    [] w.pc = "decide" -> main_decide(w)
    [] w.pc = "threshold" -> main_threshold(w)
    [] w.pc = "switch" -> switch_rewrite_config(w, env.rewrite)
    [] w.pc = "restart" -> switch_restart_call(w, env.restart)
    [] w.pc = "restart_wait" -> switch_restart_return(w)
    [] w.pc = "switch_state" -> switch_update_state(w)
    [] w.pc = "done" -> main_return(w)

Stuck(w) == w.pc = "restart_wait" /\ ~RestartReturns(w)
AtRest(w) == w.pc = "exited" \/ Stuck(w)

RECURSIVE run(_, _)
run(w, env) == IF AtRest(w) THEN w ELSE run(step(w, env), env)

(***************************************************************************)
(* What the claims speak of.                                               *)
(***************************************************************************)
Ended == wd.pc = "exited"
\* The Health line of the running (or just ended) invocation: the snapshot it
\* observed, and the mode and count it read.
ThisHealth == wd.logTail[Len(wd.logTail)]
\* The running invocation has taken its snapshot.
Observed ==
  \/ wd.pc \in {"decide", "threshold", "switch", "restart", "restart_wait",
                "switch_state", "done", "exited"}
  \/ wd.pc = "write" /\ wd.ret # "read_state"
Persisted == wd.stateFile.data[1]
Complete(file) == file.exists /\ Len(file.data) = 1
Adverse(h) == ~h.nginx \/ ~h.cf
AllUp(h) == h.nginx /\ h.cf /\ h.openclaw
Attempts(op) == {i \in 1..Len(wd.effects) : wd.effects[i].op = op}
Switching == wd.pc \in {"switch", "restart", "restart_wait", "switch_state"} \/ wd.effects # <<>>

(***************************************************************************)
(* Notifier (index.ts).  A JavaScript string is the sequence of its        *)
(* characters; the string functions and regular expressions the plugin     *)
(* uses are computed on these sequences.                                   *)
(***************************************************************************)
UpperCase == <<"A", "B", "C", "D", "E", "F", "G", "H", "I", "J", "K", "L", "M", "N", "O", "P", "Q", "R", "S", "T", "U", "V", "W", "X", "Y", "Z">>
LowerCase == <<"a", "b", "c", "d", "e", "f", "g", "h", "i", "j", "k", "l", "m", "n", "o", "p", "q", "r", "s", "t", "u", "v", "w", "x", "y", "z">>
Digits == <<"0", "1", "2", "3", "4", "5", "6", "7", "8", "9">>

IsDigit(c) == \E i \in 1..Len(Digits) : Digits[i] = c
DigitValue(c) == (CHOOSE i \in 1..Len(Digits) : Digits[i] = c) - 1
\* \s of a regular expression.
IsSpace(c) == c \in {" ", "\t", "\n"}
LowerChar(c) ==
  IF \E i \in 1..Len(UpperCase) : UpperCase[i] = c
  THEN LowerCase[CHOOSE i \in 1..Len(UpperCase) : UpperCase[i] = c]
  ELSE c
\* String.prototype.toLowerCase
toLowerCase(s) == [i \in 1..Len(s) |-> LowerChar(s[i])]

\* s has the literal lit at position i (1-based).
HasAt(s, i, lit) ==
  /\ i >= 1 /\ i + Len(lit) - 1 <= Len(s)
  /\ \A k \in 1..Len(lit) : s[i + k - 1] = lit[k]
\* The same under the i flag of a regular expression (lit is in lower case).
HasAtI(s, i, lit) ==
  /\ i >= 1 /\ i + Len(lit) - 1 <= Len(s)
  /\ \A k \in 1..Len(lit) : LowerChar(s[i + k - 1]) = lit[k]
\* String.prototype.includes
includes(s, lit) == \E i \in 1..(Len(s) + 1) : HasAt(s, i, lit)
\* String.prototype.slice(0, n)
slice0(s, n) == IF Len(s) <= n THEN s ELSE SubSeq(s, 1, n)

\* The end of the longest run of characters of a class that starts at i
\* (i - 1 when s[i] is not of the class).
RECURSIVE DigitRunEnd(_, _)
DigitRunEnd(s, i) == IF i <= Len(s) /\ IsDigit(s[i]) THEN DigitRunEnd(s, i + 1) ELSE i - 1
RECURSIVE SepRunEnd(_, _)
SepRunEnd(s, i) ==
  IF i <= Len(s) /\ (s[i] = ":" \/ IsSpace(s[i])) THEN SepRunEnd(s, i + 1) ELSE i - 1

\* /lit\d+/i matches in s.
TestLitDigits(s, lit) ==
  \E i \in 1..Len(s) : HasAtI(s, i, lit) /\ DigitRunEnd(s, i + Len(lit)) >= i + Len(lit)
\* /lit[:\s]+\d+/i matches in s at position i.
LitSepDigitsAt(s, i, lit) ==
  LET sepEnd == SepRunEnd(s, i + Len(lit)) IN
  /\ HasAtI(s, i, lit)
  /\ sepEnd >= i + Len(lit)
  /\ DigitRunEnd(s, sepEnd + 1) >= sepEnd + 1
TestLitSepDigits(s, lit) == \E i \in 1..Len(s) : LitSepDigitsAt(s, i, lit)

\* parseInt(digits, 10) of a run of digits s[from..to].
RECURSIVE parseInt(_, _, _)
parseInt(s, from, to) ==
  IF to < from THEN 0 ELSE parseInt(s, from, to - 1) * 10 + DigitValue(s[to])

\* content.match(/code[:\s]+(\d+)/i): the number captured by the leftmost
\* match, as a one-element sequence; <<>> when there is no match.
Str_code == <<"c", "o", "d", "e">>
matchCode(s) ==
  LET hits == {i \in 1..Len(s) : LitSepDigitsAt(s, i, Str_code)} IN
  IF hits = {} THEN <<>>
  ELSE LET i == CHOOSE h \in hits : \A g \in hits : h <= g
           from == SepRunEnd(s, i + Len(Str_code)) + 1 IN
       <<parseInt(s, from, DigitRunEnd(s, from))>>

BENIGN_EXIT1_COMMANDS == <<<<"c", "a", "t">>, <<"g", "r", "e", "p">>, <<"l", "s">>, <<"e", "g", "r", "e", "p">>, <<"f", "g", "r", "e", "p">>, <<"d", "i", "f", "f">>, <<"t", "e", "s", "t">>>>

Str_exited_with_code == <<"e", "x", "i", "t", "e", "d", " ", "w", "i", "t", "h", " ", "c", "o", "d", "e", " ">>
Str_exit_code == <<"e", "x", "i", "t", " ", "c", "o", "d", "e">>
Str_dev_null == <<"2", ">", "/", "d", "e", "v", "/", "n", "u", "l", "l">>
Str_no_matches_found == <<"n", "o", " ", "m", "a", "t", "c", "h", "e", "s", " ", "f", "o", "u", "n", "d">>

isHarmlessExecMessage(content) ==
  LET lower == toLowerCase(content)
      isExecErrorMsg ==
        \/ TestLitDigits(content, <<"c", "o", "m", "m", "a", "n", "d", " ", "e", "x", "i", "t", "e", "d", " ", "w", "i", "t", "h", " ", "c", "o", "d", "e", " ">>)
        \/ TestLitDigits(content, Str_exited_with_code)
        \/ TestLitSepDigits(content, Str_exit_code)
      codeMatch == matchCode(content)
      exitCode == IF codeMatch # <<>> THEN codeMatch[1] ELSE 0
  IN IF ~isExecErrorMsg THEN FALSE
     ELSE IF exitCode > 1 THEN FALSE
     ELSE IF \E k \in 1..Len(BENIGN_EXIT1_COMMANDS) : includes(lower, BENIGN_EXIT1_COMMANDS[k])
          THEN TRUE
     ELSE IF includes(lower, Str_dev_null) THEN TRUE
     ELSE includes(lower, Str_no_matches_found)

(***************************************************************************)
(* Notifier: isHarmlessExecFailure and the regular expressions it builds.  *)
(***************************************************************************)
RECURSIVE SpaceRunEnd(_, _)
SpaceRunEnd(s, i) == IF i <= Len(s) /\ IsSpace(s[i]) THEN SpaceRunEnd(s, i + 1) ELSE i - 1
RECURSIVE SpaceRunStart(_, _)
SpaceRunStart(s, i) == IF i >= 1 /\ IsSpace(s[i]) THEN SpaceRunStart(s, i - 1) ELSE i + 1
\* String.prototype.trim
trim(s) == SubSeq(s, SpaceRunEnd(s, 1) + 1, SpaceRunStart(s, Len(s)) - 1)

\* (\s|$) matches at position j of s.
SpaceOrEnd(s, j) == j = Len(s) + 1 \/ (j <= Len(s) /\ IsSpace(s[j]))
\* new RegExp(`^${cmd}(\\s|$)`).test(s)
StartsWithCommand(s, cmd) == HasAt(s, 1, cmd) /\ SpaceOrEnd(s, 1 + Len(cmd))
\* new RegExp(`${sep}\\s*${cmd}(\\s|$)`).test(s), for sep one of \| && ;
FollowsSeparator(s, sep, cmd) ==
  \E i \in 1..Len(s) :
    /\ HasAt(s, i, sep)
    /\ LET j == SpaceRunEnd(s, i + Len(sep)) + 1 IN
       HasAt(s, j, cmd) /\ SpaceOrEnd(s, j + Len(cmd))
Str_and == <<"&", "&">>
\* patterns.some(p => p.test(trimmed)) for one cmd
CommandPatterns(trimmed, cmd) ==
  \/ StartsWithCommand(trimmed, cmd)
  \/ FollowsSeparator(trimmed, <<"|">>, cmd)
  \/ FollowsSeparator(trimmed, Str_and, cmd)
  \/ FollowsSeparator(trimmed, <<";">>, cmd)

Str_zsh == <<"z", "s", "h", ":">>
\* /zsh:.*no matches/i.test(s): the dot matches no line terminator.
TestZshNoMatches(s) ==
  \E i \in 1..Len(s) :
    /\ HasAtI(s, i, Str_zsh)
    /\ \E j \in (i + Len(Str_zsh))..Len(s) :
         /\ HasAtI(s, j, <<"n", "o", " ", "m", "a", "t", "c", "h", "e", "s">>)
         /\ \A k \in (i + Len(Str_zsh))..(j - 1) : s[k] # "\n"
\* /no matches found/i.test(s)
TestNoMatchesFound(s) == \E i \in 1..Len(s) : HasAtI(s, i, Str_no_matches_found)
\* BENIGN_STDERR_PATTERNS.some(p => p.test(stderr))
BENIGN_STDERR_PATTERNS(stderr) == TestNoMatchesFound(stderr) \/ TestZshNoMatches(stderr)

\* A variant whose redirect rule applies to exit code 1 only.
isHarmlessExecFailure_marker_on_exit_1(command, exitCode, stderr) ==
  \/ exitCode = 1 /\ includes(command, Str_dev_null)
  \/ exitCode = 1 /\
       \E k \in 1..Len(BENIGN_EXIT1_COMMANDS) : CommandPatterns(trim(command), BENIGN_EXIT1_COMMANDS[k])
  \/ stderr # <<>> /\ BENIGN_STDERR_PATTERNS(stderr)
\* A variant whose allow-list applies to every non-zero exit code.
isHarmlessExecFailure_any_exit_code(command, exitCode, stderr) ==
  \/ includes(command, Str_dev_null)
  \/ exitCode # 0 /\
       \E k \in 1..Len(BENIGN_EXIT1_COMMANDS) : CommandPatterns(trim(command), BENIGN_EXIT1_COMMANDS[k])
  \/ stderr # <<>> /\ BENIGN_STDERR_PATTERNS(stderr)
isHarmlessExecFailure(command, exitCode, stderr) ==
  IF includes(command, Str_dev_null) \/ includes(command, Str_dev_null) THEN TRUE
  ELSE IF exitCode = 1 /\
            LET trimmed == trim(command) IN
            \E k \in 1..Len(BENIGN_EXIT1_COMMANDS) : CommandPatterns(trimmed, BENIGN_EXIT1_COMMANDS[k])
       THEN TRUE
  ELSE IF stderr # <<>> /\ BENIGN_STDERR_PATTERNS(stderr) THEN TRUE
  ELSE FALSE

(***************************************************************************)
(* Notifier: JavaScript values of the loosely typed host events.           *)
(***************************************************************************)
Undefined == [t |-> "undefined", v |-> <<>>]
JsStr(chars) == [t |-> "string", v |-> chars]
JsNum(n) == [t |-> "number", v |-> <<n>>]
JsObj(fields) == [t |-> "object", v |-> <<fields>>]

Truthy(x) ==
  CASE x.t = "string" -> x.v # <<>>
    [] x.t = "number" -> x.v[1] # 0
    [] x.t = "object" -> TRUE
    [] OTHER -> FALSE
\* a || b
Or(a, b) == IF Truthy(a) THEN a ELSE b

RECURSIVE ToDecimal(_)
ToDecimal(n) == IF n < 10 THEN <<Digits[n + 1]>> ELSE Append(ToDecimal(n \div 10), Digits[(n % 10) + 1])
\* String(x)
String(x) ==
  CASE x.t = "string" -> x.v
    [] x.t = "number" -> ToDecimal(x.v[1])
    [] OTHER -> <<"u", "n", "d", "e", "f", "i", "n", "e", "d">>
\* Array.prototype.includes
ArrayIncludes(arr, x) == \E i \in 1..Len(arr) : arr[i] = x

Str_167090545 == <<"1", "6", "7", "0", "9", "0", "5", "4", "5">>
Str_Unknown == <<"U", "n", "k", "n", "o", "w", "n">>
BOSS_SENDER_IDS == <<Str_167090545>>
DEFAULT_WORKFLOW_ENDPOINT == "http://localhost:4200/api/workflow"
DEFAULT_MESSAGES_ENDPOINT == "http://localhost:4200/api/messages"
DEFAULT_TIMEOUT_MS == 2000
ContentLimit == 200
CommandLimit == 150

\* The plugin's configuration: api.config is empty, the defaults apply.
workflowEndpoint == DEFAULT_WORKFLOW_ENDPOINT
messagesEndpoint == DEFAULT_MESSAGES_ENDPOINT
timeoutMs == DEFAULT_TIMEOUT_MS

\* One postJson(url, body, timeoutMs) call.
Post(url, body) == [url |-> url, body |-> body, timeoutMs |-> timeoutMs]

(***************************************************************************)
(* Notifier: the hook handlers.  Each returns the postJson calls it makes,  *)
(* in order; no handler awaits them.                                       *)
(***************************************************************************)

\* A variant that forwards the messages of every sender.
message_received_from_anyone(event) ==
  LET content == Or(event.content, JsStr(<<>>))
      senderName == Or(event.senderName, JsStr(Str_Unknown))
  IN (IF Truthy(content)
      THEN <<Post(messagesEndpoint,
                  [message |-> content.v, from |-> "Boss", type |-> "received"])>>
      ELSE <<>>)
     \o <<Post(workflowEndpoint,
               [action |-> "start_flow", content |-> slice0(content.v, ContentLimit),
                from |-> senderName.v, agent |-> "wickedman",
                messageId |-> IF Truthy(event.messageId) THEN event.messageId ELSE Undefined])>>
message_received(event) ==
  LET senderId == Or(event.senderId, JsStr(<<>>))
      content == Or(event.content, JsStr(<<>>))
      messageId == event.messageId
      senderName == Or(event.senderName, JsStr(Str_Unknown))
      isBoss == ArrayIncludes(BOSS_SENDER_IDS, String(senderId))
  IN (IF isBoss /\ Truthy(content)
      THEN <<Post(messagesEndpoint,
                  [message |-> content.v, from |-> "Boss", type |-> "received"])>>
      ELSE <<>>)
     \o
     (IF isBoss
      THEN <<Post(workflowEndpoint,
                  [action |-> "start_flow", content |-> slice0(content.v, ContentLimit),
                   from |-> senderName.v, agent |-> "wickedman",
                   messageId |-> IF Truthy(messageId) THEN messageId ELSE Undefined])>>
      ELSE <<>>)

\* A variant without the filter on harmless exec messages.
message_sent_unfiltered(event) ==
  LET content == Or(event.content, event.text)
      recipientId == Or(Or(event.recipientId, event.chatId), JsStr(<<>>))
  IN IF Truthy(content) /\ ArrayIncludes(BOSS_SENDER_IDS, String(recipientId))
     THEN <<Post(messagesEndpoint,
                 [message |-> content.v, from |-> "WickedMan", type |-> "sent"]),
            Post(workflowEndpoint,
                 [action |-> "agent_complete", agent |-> "wickedman",
                  result |-> slice0(content.v, ContentLimit)])>>
     ELSE <<>>
message_sent(event) ==
  LET content == Or(Or(event.content, event.text), JsStr(<<>>))
      recipientId == Or(Or(event.recipientId, event.chatId), JsStr(<<>>))
      isToBoss == ArrayIncludes(BOSS_SENDER_IDS, String(recipientId))
  IN IF ~Truthy(content) THEN <<>>
     ELSE IF isHarmlessExecMessage(content.v) THEN <<>>
     ELSE IF isToBoss
     THEN <<Post(messagesEndpoint,
                 [message |-> content.v, from |-> "WickedMan", type |-> "sent"]),
            Post(workflowEndpoint,
                 [action |-> "agent_complete", agent |-> "wickedman",
                  result |-> slice0(content.v, ContentLimit)])>>
     ELSE <<>>

Str_exec == <<"e", "x", "e", "c">>
Str_error == <<"e", "r", "r", "o", "r">>
\* {}: every field read of it is undefined.
EmptyResult == [status |-> Undefined, exitCode |-> Undefined, stderr |-> Undefined, error |-> Undefined]
\* `⚠️ Exec failure (exit ${exitCode}): ${command.slice(0, 150)}`
\* (the warning sign is two UTF-16 code units).
ExecFailureMessage(exitCode, command) ==
  <<"U+26A0", "U+FE0F">> \o <<" ", "E", "x", "e", "c", " ", "f", "a", "i", "l", "u", "r", "e", " ", "(", "e", "x", "i", "t", " ">> \o ToDecimal(exitCode) \o <<")", ":", " ">>
    \o slice0(command, CommandLimit)

\* A variant that reports every failed exec call.
after_tool_call_unfiltered(event) ==
  LET toolName == Or(Or(event.toolName, event.name), JsStr(<<>>))
      result == Or(Or(event.result, event.output), JsObj(EmptyResult)).v[1]
      status == Or(result.status, JsStr(<<>>))
      exitCode == IF result.exitCode.t = "number" THEN result.exitCode.v[1]
                  ELSE IF status = JsStr(Str_error) THEN 1 ELSE 0
      command == Or(Or(event.params_command, event.input_command), JsStr(<<>>))
  IN IF toolName # JsStr(Str_exec) THEN <<>>
     ELSE IF exitCode = 0 /\ status # JsStr(Str_error) THEN <<>>
     ELSE <<Post(messagesEndpoint,
                 [message |-> ExecFailureMessage(exitCode, command.v),
                  from |-> "System", type |-> "exec_error"])>>
after_tool_call(event) ==
  LET toolName == Or(Or(event.toolName, event.name), JsStr(<<>>))
      result == Or(Or(event.result, event.output), JsObj(EmptyResult)).v[1]
      status == Or(result.status, JsStr(<<>>))
      exitCode == IF result.exitCode.t = "number" THEN result.exitCode.v[1]
                  ELSE IF status = JsStr(Str_error) THEN 1 ELSE 0
      command == Or(Or(event.params_command, event.input_command), JsStr(<<>>))
      stderr == Or(Or(result.stderr, result.error), JsStr(<<>>))
  IN IF toolName # JsStr(Str_exec) THEN <<>>
     ELSE IF exitCode = 0 /\ status # JsStr(Str_error) THEN <<>>
     ELSE IF isHarmlessExecFailure(command.v, exitCode, stderr.v) THEN <<>>
     ELSE <<Post(messagesEndpoint,
                 [message |-> ExecFailureMessage(exitCode, command.v),
                  from |-> "System", type |-> "exec_error"])>>

\* The /kcc-notify handler up to its first return, throw or await of
\* postJson.  req.json() rejects on a body that is no JSON text; destructuring
\* throws a TypeError on the JSON value null.
Str_success_true == <<"{", "\"", "s", "u", "c", "c", "e", "s", "s", "\"", ":", "t", "r", "u", "e", "}">>
Str_success_false == <<"{", "\"", "s", "u", "c", "c", "e", "s", "s", "\"", ":", "f", "a", "l", "s", "e", "}">>
NoCall == <<>>
kcc_notify(req) ==
  IF req.json = "none" THEN [outcome |-> "threw", status |-> 0, body |-> <<>>, calls |-> NoCall]
  ELSE IF req.json = "null" THEN [outcome |-> "threw", status |-> 0, body |-> <<>>, calls |-> NoCall]
  ELSE IF ~Truthy(req.content)
       THEN [outcome |-> "responded", status |-> 400, body |-> <<"{", "\"", "e", "r", "r", "o", "r", "\"", ":", "\"", "c", "o", "n", "t", "e", "n", "t", " ", "i", "s", " ", "r", "e", "q", "u", "i", "r", "e", "d", "\"", "}">>,
             calls |-> NoCall]
  ELSE [outcome |-> "awaiting", status |-> 0, body |-> <<>>,
        calls |-> <<Post(workflowEndpoint,
                         [action |-> "start_flow",
                          content |-> IF req.content.t = "string"
                                      THEN slice0(req.content.v, ContentLimit) ELSE <<>>,
                          from |-> IF req.from = Undefined THEN Str_Unknown ELSE req.from.v,
                          agent |-> "wickedman",
                          messageId |-> IF Truthy(req.messageId) THEN req.messageId
                                        ELSE Undefined])>>]
\* The /kcc-notify handler after its await: postJson returned success.
kcc_notify_responds(success) ==
  [status |-> IF success THEN 200 ELSE 502,
   body |-> IF success THEN Str_success_true ELSE Str_success_false]

(***************************************************************************)
(* Notifier: the events the host delivers.  A content is a concatenation   *)
(* of at most MaxFragments fragments; an absent field is Undefined.        *)
(***************************************************************************)
Str_grep_ == <<"g", "r", "e", "p", " ">>
Str_exited_1 == <<"C", "o", "m", "m", "a", "n", "d", " ", "e", "x", "i", "t", "e", "d", " ", "w", "i", "t", "h", " ", "c", "o", "d", "e", " ", "1">>
Str_exited_2 == <<"e", "x", "i", "t", "e", "d", " ", "w", "i", "t", "h", " ", "c", "o", "d", "e", " ", "2">>
Str_999 == <<"9", "9", "9">>
Str_Boss == <<"B", "o", "s", "s">>
Str_hi == <<"h", "i">>
Fragments == {Str_grep_, Str_exited_1, Str_exited_2}

RECURSIVE Flatten(_)
Flatten(ss) == IF ss = <<>> THEN <<>> ELSE Head(ss) \o Flatten(Tail(ss))
Contents == {Flatten(ss) : ss \in UNION {[1..k -> Fragments] : k \in 0..MaxFragments}}

\* A content one character longer than what a workflow payload carries.
LongContent == [i \in 1..(ContentLimit + 1) |-> "a"]
ReceivedEvents ==
  [senderId : {JsStr(Str_167090545), JsNum(167090545), JsStr(Str_999), Undefined},
   content : {JsStr(c) : c \in Contents \cup {LongContent}},
   messageId : {Undefined, JsNum(7)},
   senderName : {Undefined, JsStr(Str_Boss)}]
SentEvents ==
  [content : {JsStr(c) : c \in Contents},
   text : {Undefined, JsStr(Str_hi)},
   recipientId : {JsStr(Str_167090545), JsStr(Str_999), Undefined},
   chatId : {Undefined, JsNum(167090545)}]

\* after_tool_call events: a tool result carries a status, an exit code and
\* an error text; the host gives the name, the result, the command and the
\* error text under either of two field names.
Str_grep_x == <<"g", "r", "e", "p", " ", "x">>
Str_make == <<"m", "a", "k", "e">>
ToolResults ==
  [status : {Undefined, JsStr(Str_error), JsStr(<<"c", "o", "m", "p", "l", "e", "t", "e", "d">>)},
   exitCode : {Undefined, JsNum(0), JsNum(1), JsNum(2)},
   stderr : {Undefined, JsStr(Str_no_matches_found)},
   error : {Undefined}]
ToolCommands == {JsStr(Str_grep_x), JsStr(Str_make), JsStr(<<"m", "a", "k", "e", " ", "2", ">", "/", "d", "e", "v", "/", "n", "u", "l", "l">>)}
\* The events that use the first field names ...
FirstNameToolEvents ==
  [toolName : {JsStr(Str_exec), JsStr(<<"r", "e", "a", "d">>)}, name : {Undefined},
   result : {JsObj(r) : r \in ToolResults}, output : {Undefined},
   params_command : ToolCommands, input_command : {Undefined}]
\* ... and the same exec events under the second field names.
OtherNames(e) ==
  [toolName |-> Undefined, name |-> e.toolName,
   result |-> Undefined,
   output |-> JsObj([e.result.v[1] EXCEPT !.stderr = Undefined, !.error = e.result.v[1].stderr]),
   params_command |-> Undefined, input_command |-> e.params_command]
ToolEvents ==
  FirstNameToolEvents
    \cup {OtherNames(e) : e \in {f \in FirstNameToolEvents : f.toolName = JsStr(Str_exec)}}
    \cup {[toolName |-> JsStr(Str_exec), name |-> Undefined, result |-> Undefined,
           output |-> Undefined, params_command |-> Undefined, input_command |-> Undefined]}

\* /kcc-notify requests: no body, the JSON value null, or a JSON object.
Requests ==
  {[json |-> j, content |-> Undefined, from |-> Undefined, messageId |-> Undefined] :
     j \in {"none", "null"}}
  \cup [json : {"object"},
        content : {Undefined, JsStr(<<>>), JsStr(Str_hi), JsNum(5)},
        from : {Undefined, JsStr(Str_Boss)},
        messageId : {Undefined, JsNum(7)}]

(***************************************************************************)
(* Notifier: the state machine.  The host runs one handler at a time to    *)
(* its return (no handler awaits); fetches settle between handler runs.    *)
(***************************************************************************)
Quiet == [hook |-> "none", event |-> <<>>, calls |-> <<>>]
\* No /kcc-notify request was made yet.
NoRequest == [state |-> "idle", awaits |-> 0, status |-> 0, body |-> <<>>]
\* The host is between handler runs: none is running, no postJson has just
\* returned, no /kcc-notify response is on its way out.
Between == running = Quiet /\ returned = <<>> /\ http.state \in {"idle", "awaiting"}

NtInit ==
  /\ hooks = {}
  /\ running = Quiet
  /\ inflight = {}
  /\ issued = 0
  /\ returned = <<>>
  /\ http = NoRequest

\* kccNotifyPlugin(api): registers the hooks unless config.enabled is false.
kccNotifyPlugin(enabled) ==
  IF enabled THEN {"message_received", "message_sent", "after_tool_call", "/kcc-notify"}
  ELSE {}
Load ==
  /\ hooks = {} /\ issued = 0 /\ running = Quiet
  /\ \E enabled \in BOOLEAN : hooks' = kccNotifyPlugin(enabled)
  /\ hooks' # {}
  /\ UNCHANGED <<wd, filter, http, running, inflight, issued, returned>>

\* postJson up to its await: the timer is armed and the fetch started.
postJson(call, id) == [id |-> id, url |-> call.url, timeoutMs |-> call.timeoutMs]

Handle(hook, event, calls) ==
  /\ hook \in hooks
  /\ Between
  /\ issued + Len(calls) <= MaxPosts
  /\ running' = [hook |-> hook, event |-> event, calls |-> calls]
  /\ inflight' = inflight \cup {postJson(calls[i], issued + i) : i \in 1..Len(calls)}
  /\ issued' = issued + Len(calls)
  /\ UNCHANGED <<wd, filter, http, hooks, returned>>

\* A handler is a function of its event alone: its runs are tabulated once.
ReceivedRuns == {[event |-> e, calls |-> message_received(e)] : e \in ReceivedEvents}
SentRuns == {[event |-> e, calls |-> message_sent(e)] : e \in SentEvents}
ToolRuns == {[event |-> e, calls |-> after_tool_call(e)] : e \in ToolEvents}
RequestRuns == {[req |-> r, run |-> kcc_notify(r)] : r \in Requests}

MessageReceived ==
  /\ running = Quiet
  /\ \E r \in ReceivedRuns : Handle("message_received", r.event, r.calls)
MessageSent ==
  /\ running = Quiet
  /\ \E r \in SentRuns : Handle("message_sent", r.event, r.calls)
AfterToolCall ==
  /\ running = Quiet
  /\ \E r \in ToolRuns : Handle("after_tool_call", r.event, r.calls)

\* POST /kcc-notify: the handler runs until it returns a response, throws, or
\* awaits the postJson call it made.
ManualNotify ==
  /\ "/kcc-notify" \in hooks
  /\ Between /\ http.state = "idle"
  /\ \E r \in RequestRuns :
       /\ issued + Len(r.run.calls) <= MaxPosts
       /\ running' = [hook |-> "/kcc-notify", event |-> r.req, calls |-> r.run.calls]
       /\ inflight' = inflight \cup {postJson(r.run.calls[i], issued + i) : i \in 1..Len(r.run.calls)}
       /\ issued' = issued + Len(r.run.calls)
       /\ http' = [state |-> r.run.outcome,
                   awaits |-> IF r.run.outcome = "awaiting" THEN issued + 1 ELSE 0,
                   status |-> r.run.status, body |-> r.run.body]
  /\ UNCHANGED <<wd, filter, hooks, returned>>

\* A variant in which a handler awaits the postJson calls it made.
HandlerReturns_after_posts ==
  /\ running # Quiet
  /\ \A p \in inflight : p.id <= issued - Len(running.calls)
  /\ running' = Quiet
  /\ UNCHANGED <<wd, filter, http, hooks, inflight, issued, returned>>
\* The handler's promise resolves, or the handler is suspended at an await:
\* the host goes on.
HandlerReturns ==
  /\ running # Quiet
  /\ running' = Quiet
  /\ UNCHANGED <<wd, filter, http, hooks, inflight, issued, returned>>

\* postJson after its await: it returns response.ok when the fetch resolves,
\* and false from its catch block when the fetch rejects.
postJson_uncaught(fetch) ==
  IF fetch.kind = "response" THEN [threw |-> FALSE, value |-> fetch.ok]
  ELSE [threw |-> TRUE, value |-> FALSE]
postJson_after_await(fetch) ==
  IF fetch.kind = "response" THEN [threw |-> FALSE, value |-> fetch.ok]
  ELSE [threw |-> FALSE, value |-> FALSE]
Settle(p, cause, fetch) ==
  /\ Between
  /\ inflight' = inflight \ {p}
  /\ returned' = <<[id |-> p.id, cause |-> cause,
                    value |-> postJson_after_await(fetch).value,
                    threw |-> postJson_after_await(fetch).threw]>>
  /\ UNCHANGED <<wd, filter, http, hooks, running, issued>>
FetchResponds ==
  \E p \in inflight, ok \in BOOLEAN :
    Settle(p, IF ok THEN "2xx" ELSE "not 2xx", [kind |-> "response", ok |-> ok])
FetchFails == \E p \in inflight : Settle(p, "network error", [kind |-> "rejected", ok |-> FALSE])
\* setTimeout(() => controller.abort(), timeoutMs) fires: the fetch rejects.
TimeoutAborts ==
  \E p \in inflight :
    p.timeoutMs > 0 /\ Settle(p, "timeout", [kind |-> "rejected", ok |-> FALSE])
\* The postJson call that has just returned is the one /kcc-notify awaits.
Awaited == http.state = "awaiting" /\ returned # <<>> /\ returned[1].id = http.awaits
\* void postJson(...): the caller drops the returned value.
Discard ==
  /\ returned # <<>> /\ http.state \in {"idle", "awaiting"} /\ ~Awaited
  /\ returned' = <<>>
  /\ UNCHANGED <<wd, filter, http, hooks, running, inflight, issued>>
\* const success = await postJson(...): the /kcc-notify handler goes on and
\* returns its response (a throw of postJson would pass through it).
ManualResponds ==
  /\ Awaited
  /\ http' = IF returned[1].threw
             THEN [state |-> "threw", awaits |-> 0, status |-> 0, body |-> <<>>]
             ELSE [state |-> "responded", awaits |-> 0,
                   status |-> kcc_notify_responds(returned[1].value).status,
                   body |-> kcc_notify_responds(returned[1].value).body]
  /\ UNCHANGED <<wd, filter, hooks, running, inflight, issued, returned>>
\* The host sends the response, or reports the rejection, of /kcc-notify.
ResponseSent ==
  /\ running = Quiet /\ http.state \in {"responded", "threw"}
  /\ http' = NoRequest
  /\ returned' = <<>>
  /\ UNCHANGED <<wd, filter, hooks, running, inflight, issued>>

(***************************************************************************)
(* The two filter functions applied on their own, to commands and messages *)
(* put together from at most MaxFragments fragments.                       *)
(***************************************************************************)
Str_make_pipe == <<"m", "a", "k", "e", " ", "|", " ">>
Str_make_or == <<"m", "a", "k", "e", " ", "|", "|", " ">>
Str__quiet == <<" ", "2", ">", "/", "d", "e", "v", "/", "n", "u", "l", "l">>
CommandFragments ==
  {Str_make_pipe, Str_make_or, <<"m", "a", "k", "e", " ", "&", "&", " ">>, <<"m", "a", "k", "e", " ", ";", " ">>, <<"e", "c", "h", "o", " ">>, Str_grep_x, <<"l", "s">>,
   Str__quiet}
Commands == {Flatten(ss) : ss \in UNION {[1..k -> CommandFragments] : k \in 0..MaxFragments}}
ExitCodes == {0, 1, 2, 127}
Stderrs == {<<>>, Str_error, <<"z", "s", "h", ":", " ", "n", "o", " ", "m", "a", "t", "c", "h", "e", "s", " ", "f", "o", "u", "n", "d", ":", " ", "*", ".", "c">>, <<"N", "o", " ", "M", "a", "t", "c", "h", "e", "s", " ", "F", "o", "u", "n", "d">>}

MessageFragments ==
  {Str_grep_, Str_exited_1, Str_exited_2, <<"g", "r", "e", "p", " ", "r", "e", "t", "u", "r", "n", "e", "d", " ", "c", "o", "d", "e", ":", " ", "0", ";", " ">>, <<"e", "x", "i", "t", " ", "c", "o", "d", "e", ":", " ", "2">>, Str__quiet}
Messages == {Flatten(ss) : ss \in UNION {[1..k -> MessageFragments] : k \in 0..MaxFragments}}

\* No filter function was applied on its own yet.
NoFilter == [fn |-> "none", args |-> <<>>, result |-> FALSE]
FlInit == filter = NoFilter

ExecFailure ==
  /\ filter = NoFilter
  /\ \E command \in Commands, exitCode \in ExitCodes, stderr \in Stderrs :
       filter' = [fn |-> "isHarmlessExecFailure", args |-> <<command, exitCode, stderr>>,
                  result |-> isHarmlessExecFailure(command, exitCode, stderr)]
  /\ UNCHANGED <<wdvars, ntvars>>
ExecMessage ==
  /\ filter = NoFilter
  /\ \E content \in Messages :
       filter' = [fn |-> "isHarmlessExecMessage", args |-> <<content>>,
                  result |-> isHarmlessExecMessage(content)]
  /\ UNCHANGED <<wdvars, ntvars>>
FlNext == ExecFailure \/ ExecMessage

NtNext ==
  \/ Load \/ MessageReceived \/ MessageSent \/ AfterToolCall \/ ManualNotify
  \/ HandlerReturns \/ FetchResponds \/ FetchFails \/ TimeoutAborts \/ Discard
  \/ ManualResponds \/ ResponseSent

(***************************************************************************)
(* The specifications.  The watchdog and the notifier share nothing, so    *)
(* each is also checked on its own.                                        *)
(***************************************************************************)
Init == WdInit /\ NtInit /\ FlInit
Next == WdNext \/ NtNext \/ FlNext
Spec == Init /\ [][Next]_vars
WatchdogSpec == Init /\ [][WdNext]_vars
NotifierSpec == Init /\ [][NtNext]_vars
FilterSpec == Init /\ [][FlNext]_vars

(***************************************************************************)
(* Claims about the watchdog.                                              *)
(***************************************************************************)

\* C1: with threshold 2, from the persisted state {webhook, failureCount 0} an
\* invocation that observes the reverse proxy down ends with mode webhook,
\* persisted failureCount 1 and no switch; a second consecutive invocation
\* that observes the proxy down ends having made exactly one transition to
\* polling, with persisted failureCount 0.
C1_TwoProxyDownChecksSwitch ==
  /\ (Ended /\ ThisHealth.mode = "webhook" /\ ThisHealth.failures = <<0>>
        /\ ~ThisHealth.nginx)
       => /\ Complete(wd.stateFile)
          /\ Persisted.mode = "webhook" /\ Persisted.failureCount = 1
          /\ wd.effects = <<>>
  /\ (Ended /\ Len(wd.logTail) = 2
        /\ wd.logTail[1].mode = "webhook" /\ wd.logTail[1].failures = <<0>>
        /\ ~wd.logTail[1].nginx
        /\ ThisHealth.mode = "webhook" /\ ThisHealth.failures = <<1>>
        /\ ~ThisHealth.nginx)
       => /\ Complete(wd.stateFile)
          /\ Persisted.mode = "polling" /\ Persisted.failureCount = 0
          /\ Cardinality(Attempts("config")) = 1

\* C2: in polling mode every invocation that observes proxy, tunnel and
\* gateway all up increments failureCount by one; the invocation in which it
\* reaches the threshold ends with persisted mode webhook, failureCount 0 and
\* lastSwitch the time of the switch; an invocation that observes one of the
\* three down makes no transition to webhook.
C2_PollingRecoverySwitchesToWebhook ==
  /\ (Ended /\ ThisHealth.mode = "polling" /\ AllUp(ThisHealth))
       => /\ Arith(wd.locals.failure_count) = Arith(ThisHealth.failures) + 1
          /\ Arith(wd.locals.failure_count) >= FAILURE_THRESHOLD
               => /\ Complete(wd.stateFile)
                  /\ Persisted.mode = "webhook" /\ Persisted.failureCount = 0
                  /\ Persisted.lastSwitch = wd.now
  /\ (Observed /\ ThisHealth.mode = "polling" /\ ~AllUp(ThisHealth))
       => ~Switching /\ (Complete(wd.stateFile) => Persisted.mode = "polling")

\* C3: in webhook mode an invocation that observes proxy and tunnel both up
\* ends with persisted failureCount 0 and mode webhook; so a switch to polling
\* is begun only when the FAILURE_THRESHOLD most recent invocations all ran in
\* webhook mode and observed the proxy or the tunnel down.
C3_AdverseChecksMustBeConsecutive ==
  /\ (Ended /\ ThisHealth.mode = "webhook" /\ ~Adverse(ThisHealth))
       => /\ Complete(wd.stateFile)
          /\ Persisted.mode = "webhook" /\ Persisted.failureCount = 0
          /\ ~Switching
  /\ (Switching /\ ThisHealth.mode = "webhook")
       => /\ Len(wd.logTail) = FAILURE_THRESHOLD
          /\ \A i \in 1..Len(wd.logTail) :
               wd.logTail[i].mode = "webhook" /\ Adverse(wd.logTail[i])
C3_Witness ==
  /\ Ended /\ ThisHealth.mode = "webhook" /\ ~Adverse(ThisHealth)
  /\ ThisHealth.failures = <<1>> /\ Persisted.failureCount = 0

\* C4: in polling mode an invocation that observes proxy, tunnel or gateway
\* down never increments failureCount: it ends with persisted failureCount 0
\* and mode polling, however often such invocations repeat.
C4_PollingDownNeverCounts ==
  (Ended /\ ThisHealth.mode = "polling" /\ ~AllUp(ThisHealth))
    => /\ Complete(wd.stateFile)
       /\ Persisted.mode = "polling" /\ Persisted.failureCount = 0
       /\ wd.locals.failure_count = ThisHealth.failures
C4_Witness ==
  /\ Ended /\ Len(wd.logTail) = 2
  /\ \A i \in 1..2 : wd.logTail[i].mode = "polling" /\ ~AllUp(wd.logTail[i])
  /\ Persisted.failureCount = 0

\* C5: in the invocation where failureCount reaches the threshold, a failed
\* rewrite of the channel configuration or a failed restart call does not
\* stop the transition: the invocation ends normally with the new mode,
\* failureCount 0 and a new lastSwitch persisted, having tried the failed
\* step once.
C5_FailedRewriteOrRestartStillSwitches ==
  (Ended /\ \E i \in 1..Len(wd.effects) : wd.effects[i].result # "ok")
    => /\ wd.exit = "ok"
       /\ Complete(wd.stateFile)
       /\ Persisted.mode = SwitchTarget(wd) /\ Persisted.failureCount = 0
       /\ Persisted.lastSwitch = wd.now
       /\ Cardinality(Attempts("config")) = 1
       /\ Cardinality(Attempts("restart")) = 1

\* C6: every write of the state record is an atomic replace: whoever reads the
\* state file, at any instant of an invocation that found a record in it,
\* reads a complete record, never an empty file.
C6_StateFileNeverSeenEmpty ==
  (wd.pc # "idle" /\ Complete(wd.start[1].stateFile)) => Complete(wd.stateFile)

\* C7: every outbound call is bounded by a timeout, so a running watchdog
\* invocation can always take its next step, also when the far end of a call
\* accepts the connection and never answers.
C7_WatchdogNeverBlocks == wd.pc \in {"idle", "exited"} \/ ENABLED WdStep

\* C8: the auxiliary-service probe never influences the watchdog: from the
\* same persisted state and channel configuration, under the same answers of
\* the environment and a snapshot that differs only in the auxiliary-service
\* result, the invocation leaves the same state file, the same channel
\* configuration and the same side effects.
AsRemote(ok) == IF ok THEN "up" ELSE "down"
C8_AuxiliaryProbeHasNoInfluence ==
  AtRest(wd) =>
    \A kcc \in Remote :
      LET found == wd.start[1]
          env == [probes |-> [nginx |-> AsRemote(wd.locals.nginx_ok),
                              cf |-> AsRemote(wd.locals.cf_ok),
                              openclaw |-> AsRemote(wd.locals.openclaw_ok),
                              kcc |-> kcc],
                  rewrite |-> wd.env.rewrite, restart |-> wd.env.restart]
          other == run(cron(Idle(found.stateFile, found.openclawConfig, wd.now - 1, <<>>)), env)
      IN /\ other.stateFile = wd.stateFile
         /\ other.openclawConfig = wd.openclawConfig
         /\ other.effects = wd.effects
         /\ other.exit = wd.exit
C8_Witness ==
  /\ Ended /\ ~ThisHealth.kcc /\ ThisHealth.mode = "polling"
  /\ Complete(wd.stateFile) /\ Persisted.mode = "webhook"
  /\ Cardinality(Attempts("restart")) = 1

(***************************************************************************)
(* Claims about the notifier.                                              *)
(***************************************************************************)
\* The priority-sender set, as the host may name its one member.
PrioritySenders == {JsStr(Str_167090545), JsNum(167090545)}
IsFeed(call, type) == call.url = messagesEndpoint /\ call.body.type = type
IsFlow(call, action) == call.url = workflowEndpoint /\ call.body.action = action
Received == running.hook = "message_received"
Sent == running.hook = "message_sent"

SentContent == IF Truthy(running.event.content) THEN running.event.content
               ELSE running.event.text
SentRecipient == IF Truthy(running.event.recipientId) THEN running.event.recipientId
                 ELSE running.event.chatId
SentContentText == IF SentContent.t = "string" THEN SentContent.v ELSE <<>>

FirstSet(a, b) == IF Truthy(a) THEN a ELSE b
TextOr(x) == IF x.t = "string" THEN x.v ELSE <<>>
ToolCall == running.hook = "after_tool_call"
CalledTool == TextOr(FirstSet(running.event.toolName, running.event.name))
CalledResult ==
  IF Truthy(FirstSet(running.event.result, running.event.output))
  THEN FirstSet(running.event.result, running.event.output).v[1]
  ELSE EmptyResult
CalledStatus == TextOr(CalledResult.status)
CalledExitCode ==
  IF CalledResult.exitCode.t = "number" THEN CalledResult.exitCode.v[1]
  ELSE IF CalledStatus = Str_error THEN 1 ELSE 0
CalledCommand == TextOr(FirstSet(running.event.params_command, running.event.input_command))
CalledStderr == TextOr(FirstSet(CalledResult.stderr, CalledResult.error))

\* C11: with exitCode the result's numeric exitCode, or else 1 when the status
\* is "error" and 0 otherwise, after_tool_call makes exactly one exec_error
\* call to the messages feed when the tool is "exec", exitCode is not 0 or the
\* status is "error", and isHarmlessExecFailure(command, exitCode, stderr) is
\* false; in every other case it makes no call.
C11_ExecFailureCalls ==
  ToolCall =>
    IF /\ CalledTool = Str_exec
       /\ (CalledExitCode # 0 \/ CalledStatus = Str_error)
       /\ ~isHarmlessExecFailure(CalledCommand, CalledExitCode, CalledStderr)
    THEN /\ Len(running.calls) = 1
         /\ IsFeed(running.calls[1], "exec_error")
         /\ running.calls[1].body.message = ExecFailureMessage(CalledExitCode, CalledCommand)
    ELSE running.calls = <<>>
C11_Witness ==
  /\ ToolCall /\ running.event.name = JsStr(Str_exec)
  /\ CalledResult.exitCode = Undefined /\ CalledStatus = Str_error
  /\ CalledCommand = Str_make /\ CalledStderr = <<>>
  /\ Len(running.calls) = 1 /\ Cardinality(inflight) >= 1

ManualRun == running.hook = "/kcc-notify"
\* The response to the request that awaited a postJson call is ready.
ManualResponse == http.state = "responded" /\ returned # <<>>

\* C12: a POST /kcc-notify request whose body is empty or lacks content gets a
\* 400 response and causes no call; a request with content causes exactly one
\* workflow call with action start_flow, and gets status 200 with
\* {success: true} when the delivery succeeded and status 502 with
\* {success: false} when it failed; no request makes the handler throw.
C12_ManualNotifyResponds ==
  /\ http.state # "threw"
  /\ (ManualRun /\ ~Truthy(running.event.content))
       => /\ http.state = "responded" /\ http.status = 400
          /\ running.calls = <<>>
  /\ (ManualRun /\ Truthy(running.event.content))
       => /\ http.state = "awaiting"
          /\ Len(running.calls) = 1 /\ IsFlow(running.calls[1], "start_flow")
  /\ ManualResponse
       => IF returned[1].cause = "2xx"
          THEN http.status = 200 /\ http.body = Str_success_true
          ELSE http.status = 502 /\ http.body = Str_success_false

DeliveryFailures == {"not 2xx", "network error", "timeout"}
\* The postJson call that has just returned was made by a hook handler, which
\* did not await it.
ReturnedToHook == returned # <<>> /\ ~Awaited /\ http.state \in {"idle", "awaiting"}

\* C13: a delivery failure (a response that is not 2xx, a network error, a
\* timeout) is recovered inside postJson: postJson never throws, it returns
\* false on every failure and true only on a 2xx response; so no rejection
\* reaches a hook handler or the host, and the value returned to a hook
\* handler can always be dropped.
C13_DeliveryFailureRecovered ==
  /\ returned # <<>>
       => /\ ~returned[1].threw
          /\ returned[1].cause \in DeliveryFailures => returned[1].value = FALSE
          /\ returned[1].value = TRUE => returned[1].cause = "2xx"
  /\ ReturnedToHook => ENABLED Discard
C13_Witness ==
  /\ ReturnedToHook /\ returned[1].cause = "timeout" /\ returned[1].value = FALSE
  /\ inflight # {}

HookRun == running.hook \in {"message_received", "message_sent", "after_tool_call"}
\* The ids of the postJson calls the running handler made.
RunIds == (issued - Len(running.calls) + 1)..issued
InFlightIds == {p.id : p \in inflight}

\* C14: the three hook handlers are fire-and-forget: a handler returns to the
\* host while every postJson call it made is still in flight, whatever becomes
\* of them; and between handler runs any call in flight, of whichever
\* invocation, can be the next to complete.
C14_HandlersFireAndForget ==
  /\ HookRun => (RunIds \subseteq InFlightIds /\ ENABLED HandlerReturns)
  /\ Between => \A p \in inflight : ENABLED Settle(p, "2xx", [kind |-> "response", ok |-> TRUE])
\* The handler has returned, and a call of a later invocation has completed
\* before a call of an earlier one.
C14_Witness ==
  /\ Between /\ issued = MaxPosts
  /\ 1 \in InFlightIds /\ MaxPosts \notin InFlightIds

\* The content a payload carries: the message of a messages-feed payload, the
\* content of a workflow payload.
Carried(call) == IF call.url = messagesEndpoint THEN call.body.message ELSE call.body.content

\* C15: for every message_received event of a priority sender, each of the
\* payloads sent (messages feed and workflow start_flow) carries the content
\* of the message cut to its first 200 characters, whatever its length.
C15_BothPayloadsTruncated ==
  (Received /\ running.event.senderId \in PrioritySenders)
    => \A i \in 1..Len(running.calls) :
         /\ Len(Carried(running.calls[i])) <= ContentLimit
         /\ Carried(running.calls[i]) = slice0(running.event.content.v, ContentLimit)

(***************************************************************************)
(* Claims about the filter functions.                                      *)
(***************************************************************************)
FailureApplied == filter.fn = "isHarmlessExecFailure"
MessageApplied == filter.fn = "isHarmlessExecMessage"
\* The text s contains the text lit.
Contains(s, lit) == \E i \in 1..(Len(s) - Len(lit) + 1) : SubSeq(s, i, i + Len(lit) - 1) = lit
Allowed == {BENIGN_EXIT1_COMMANDS[k] : k \in 1..Len(BENIGN_EXIT1_COMMANDS)}

\* C16: isHarmlessExecFailure returns true for every command that contains
\* the marker 2>/dev/null, for every exit code and every stderr text.
C16_RedirectMarkerAlwaysHarmless ==
  (FailureApplied /\ Contains(filter.args[1], Str_dev_null)) => filter.result = TRUE
C16_Witness ==
  /\ FailureApplied /\ filter.args = <<Str_make_or \o Str__quiet, 127, Str_error>>
  /\ filter.result = TRUE

\* C17: for every exit code greater than 1, isHarmlessExecFailure returns
\* false when the command does not contain the marker 2>/dev/null and stderr
\* matches none of the "no matches" patterns, whatever commands it names.
C17_ExitCodeAboveOneNeverAllowListed ==
  (FailureApplied /\ filter.args[2] > 1
     /\ ~Contains(filter.args[1], Str_dev_null)
     /\ ~BENIGN_STDERR_PATTERNS(filter.args[3]))
    => filter.result = FALSE
C17_Witness ==
  /\ FailureApplied /\ filter.args = <<Str_make_pipe \o Str_grep_x, 2, Str_error>>
  /\ filter.result = FALSE

\* The exit codes a message reports: the numbers that follow "exited with
\* code " or "exit code", a colon or blanks (in any letter case).
NumberAt(s, j) == parseInt(s, j, DigitRunEnd(s, j))
ReportedCodes(s) ==
  {NumberAt(s, i + Len(Str_exited_with_code)) :
     i \in {h \in 1..Len(s) : /\ HasAtI(s, h, Str_exited_with_code)
                              /\ DigitRunEnd(s, h + Len(Str_exited_with_code))
                                   >= h + Len(Str_exited_with_code)}}
  \cup
  {NumberAt(s, SepRunEnd(s, i + Len(Str_exit_code)) + 1) :
     i \in {h \in 1..Len(s) : LitSepDigitsAt(s, h, Str_exit_code)}}
NamesAllowed(s) == \E cmd \in Allowed : Contains(toLowerCase(s), cmd)

\* C18: isHarmlessExecMessage returns false for every content that reports an
\* exit code greater than 1, whatever else the content mentions (allow-listed
\* command names, the redirect marker, other numbers); and it returns true
\* for a content that reports exit code 1 (and none greater) and names an
\* allow-listed command.
C18_ReportedCodeAboveOneNeverHarmless ==
  MessageApplied =>
    /\ (\E n \in ReportedCodes(filter.args[1]) : n > 1) => filter.result = FALSE
    /\ (ReportedCodes(filter.args[1]) = {1} /\ NamesAllowed(filter.args[1]))
         => filter.result = TRUE

\* The words of a command that name the program of one of its parts: the
\* first word, and the word that follows a pipe |, a && or a ; (a || is none
\* of these).
RECURSIVE WordEnd(_, _)
WordEnd(s, i) == IF i <= Len(s) /\ ~IsSpace(s[i]) THEN WordEnd(s, i + 1) ELSE i - 1
WordAt(s, i) == SubSeq(s, SpaceRunEnd(s, i) + 1, WordEnd(s, SpaceRunEnd(s, i) + 1))
IsPipe(s, i) ==
  /\ s[i] = "|"
  /\ (i = 1 \/ s[i - 1] # "|")
  /\ (i = Len(s) \/ s[i + 1] # "|")
BaseTokens(s) ==
  {WordAt(s, 1)}
    \cup {WordAt(s, i + 1) : i \in {h \in 1..Len(s) : IsPipe(s, h) \/ s[h] = ";"}}
    \cup {WordAt(s, i + 2) : i \in {h \in 1..Len(s) : HasAt(s, h, Str_and)}}

Found ==
  IF Complete(wd.start[1].stateFile) THEN wd.start[1].stateFile.data[1] ELSE InitialState
\* The running invocation counted this check and the count is at the threshold.
ReachedThreshold ==
  /\ Observed
  /\ wd.locals.failure_count # ThisHealth.failures
  /\ Arith(wd.locals.failure_count) >= FAILURE_THRESHOLD
\* The rewrites of the channel configuration that replaced the file, and the
\* calls of the restart endpoint, of the running invocation.
Rewrites == {i \in Attempts("config") : wd.effects[i].result = "ok"}
RestartCalls == Attempts("restart")
ModeChanged == Complete(wd.stateFile) /\ Persisted.mode # Found.mode

\* An invocation that does not reach the threshold leaves mode, lastSwitch and
\* the channel configuration as it found them and calls nothing.
BelowThresholdFrame ==
  /\ (AtRest(wd) /\ ~ReachedThreshold)
       => /\ Complete(wd.stateFile)
          /\ Persisted.mode = Found.mode
          /\ Persisted.lastSwitch = Found.lastSwitch
  /\ (wd.pc # "idle" /\ ~ReachedThreshold)
       => /\ wd.openclawConfig = wd.start[1].openclawConfig
          /\ wd.effects = <<>>
\* An invocation that has rewritten the configuration or called the restart
\* endpoint, and has come to rest, has changed the mode.
EffectsOnlyWithModeChange ==
  (AtRest(wd) /\ (Rewrites # {} \/ RestartCalls # {})) => ModeChanged

\* C20: an invocation that does not reach the threshold has no effect beyond
\* the counter: persisted mode and lastSwitch stay as found, the channel
\* configuration is not rewritten and the restart endpoint is not called;
\* rewrites and restart calls happen only in an invocation that changes the
\* mode.
C20_NoEffectWithoutModeChange == BelowThresholdFrame /\ EffectsOnlyWithModeChange

\* The persisted count at the end of an invocation is below the threshold.
CountBelowThresholdAtEnd ==
  Ended => Complete(wd.stateFile) /\ Persisted.failureCount \in 0..(FAILURE_THRESHOLD - 1)
\* An invocation that changes the mode runs at least FAILURE_THRESHOLD
\* invocations after the one that made the previous change (now counts the
\* invocations; lastSwitch is the now of the last change, 0 for none).
DwellBetweenTransitions ==
  (wd.pc # "idle" /\ ModeChanged /\ Found.lastSwitch # 0)
    => wd.now - Found.lastSwitch >= FAILURE_THRESHOLD

\* C21: at the end of every invocation the persisted failureCount is in
\* 0..FAILURE_THRESHOLD-1, and two successive mode transitions are at least
\* FAILURE_THRESHOLD invocations apart.
C21_HysteresisDwell == CountBelowThresholdAtEnd /\ DwellBetweenTransitions

\* The FAILURE_THRESHOLD most recent invocations, the running one included,
\* all observed the proxy or the tunnel down; all observed proxy, tunnel and
\* gateway up.
ConstantlyAdverse ==
  /\ Observed /\ Len(wd.logTail) = FAILURE_THRESHOLD
  /\ \A i \in 1..Len(wd.logTail) : Adverse(wd.logTail[i])
ConstantlyUp ==
  /\ Observed /\ Len(wd.logTail) = FAILURE_THRESHOLD
  /\ \A i \in 1..Len(wd.logTail) : AllUp(wd.logTail[i])
\* The mode the watchdog has persisted.
ModeIs(mode) == Complete(wd.stateFile) /\ Persisted.mode = mode

\* C22: under constant health the mode stabilises: once the invocations have
\* observed the proxy or the tunnel down throughout, an invocation that takes
\* no further step leaves the mode polling, and it is polling after every
\* later such invocation; likewise webhook once they have observed proxy,
\* tunnel and gateway up throughout.
C22_StabilisesUnderConstantHealth ==
  /\ (AtRest(wd) /\ ConstantlyAdverse) => ModeIs("polling")
  /\ (AtRest(wd) /\ ConstantlyUp) => ModeIs("webhook")

====
